---- MODULE Spec2Model ----
(***************************************************************************)
(* Model of 0s (src/0s.go): a command-line tool that keeps a "current      *)
(* repository" in config/config.json and lists, copies and downloads files *)
(* against it.                                                             *)
(*                                                                         *)
(* Strings that the program slices or joins (paths, names, arguments) are  *)
(* sequences of one-character strings, so that filepath.Join, Clean and    *)
(* the slice walker.Path()[len(remotePath):] are computed as the code      *)
(* computes them.  The platform is Unix (separator "/").                   *)
(***************************************************************************)
EXTENDS Integers, Sequences, FiniteSets, TLC

\* ------------------------------------------------------------------------
\* Strings and paths (path/filepath, Unix)
\* ------------------------------------------------------------------------

Separator == "/"

Dot == <<".">>

DotDot == <<".", ".">>

\* byte value of a character (names are compared bytewise when sorted)
Code(c) ==
  CASE c = "." -> 46
    [] c = "/" -> 47
    [] c = "a" -> 97
    [] c = "b" -> 98
    [] c = "c" -> 99
    [] c = "d" -> 100
    [] c = "f" -> 102
    [] c = "g" -> 103
    [] c = "h" -> 104
    [] c = "i" -> 105
    [] c = "j" -> 106
    [] c = "n" -> 110
    [] c = "o" -> 111
    [] c = "r" -> 114
    [] c = "s" -> 115
    [] c = "u" -> 117
    [] c = "w" -> 119
    [] c = "x" -> 120

RECURSIVE SplitAcc(_, _, _, _)
SplitAcc(s, i, cur, out) ==
  IF i > Len(s) THEN Append(out, cur)
  ELSE IF s[i] = Separator THEN SplitAcc(s, i + 1, <<>>, Append(out, cur))
  ELSE SplitAcc(s, i + 1, Append(cur, s[i]), out)

\* the elements of s between separators (strings.Split(s, "/"))
Split(s) == SplitAcc(s, 1, <<>>, <<>>)

RECURSIVE JoinSep(_)
\* strings.Join(parts, "/")
JoinSep(parts) ==
  IF parts = <<>> THEN <<>>
  ELSE IF Len(parts) = 1 THEN parts[1]
  ELSE parts[1] \o <<Separator>> \o JoinSep(Tail(parts))

RECURSIVE CleanParts(_, _, _)
\* the element-by-element pass of filepath.Clean: empty and "." elements go,
\* ".." removes the element before it, or stays when there is none to remove
\* and the path is not rooted
CleanParts(parts, rooted, out) ==
  IF parts = <<>> THEN out
  ELSE LET c == Head(parts)
           rest == Tail(parts)
       IN IF c = <<>> \/ c = Dot THEN CleanParts(rest, rooted, out)
          ELSE IF c = DotDot
            THEN IF out # <<>> /\ out[Len(out)] # DotDot
                   THEN CleanParts(rest, rooted, SubSeq(out, 1, Len(out) - 1))
                 ELSE IF rooted THEN CleanParts(rest, rooted, out)
                 ELSE CleanParts(rest, rooted, Append(out, DotDot))
          ELSE CleanParts(rest, rooted, Append(out, c))

IsAbs(s) == s # <<>> /\ s[1] = Separator

\* filepath.Clean
Clean(s) ==
  IF s = <<>> THEN Dot
  ELSE LET body == JoinSep(CleanParts(Split(s), IsAbs(s), <<>>))
       IN IF IsAbs(s) THEN <<Separator>> \o body
          ELSE IF body = <<>> THEN Dot ELSE body

RECURSIVE Join(_)
\* filepath.Join / path.Join: leading empty elements are dropped, the rest
\* is joined with the separator and cleaned; all empty gives ""
Join(elems) ==
  IF elems = <<>> THEN <<>>
  ELSE IF Head(elems) = <<>> THEN Join(Tail(elems))
  ELSE Clean(JoinSep(elems))

\* filepath.ToSlash: every separator becomes a slash
ToSlash(s) == [i \in DOMAIN s |-> IF s[i] = Separator THEN "/" ELSE s[i]]

\* s[n:] of Go, for n <= len(s)
SliceFrom(s, n) == SubSeq(s, n + 1, Len(s))

RECURSIVE NameLess(_, _)
\* a < b on strings, bytewise
NameLess(a, b) ==
  IF b = <<>> THEN FALSE
  ELSE IF a = <<>> THEN TRUE
  ELSE IF Code(a[1]) # Code(b[1]) THEN Code(a[1]) < Code(b[1])
  ELSE NameLess(Tail(a), Tail(b))

RECURSIVE SortNames(_)
\* the names of a set in increasing order
SortNames(S) ==
  IF S = {} THEN <<>>
  ELSE LET m == CHOOSE x \in S : \A y \in S \ {x} : NameLess(x, y)
       IN <<m>> \o SortNames(S \ {m})

\* ------------------------------------------------------------------------
\* File systems (package os on the local tree, the SFTP server's tree)
\* ------------------------------------------------------------------------
\* A tree is a function from the absolute paths that exist (sequences of
\* names, <<>> the root) to entries [dir, data, r]: directory or file, the
\* file's content (0 is the empty content), and whether the caller is
\* permitted to open the entry.

MaxDepth == 4

NilErr == [op |-> "nil", path |-> <<>>]

Err(op, s) == [op |-> op, path |-> s]

DirEntry(mode) == [dir |-> TRUE, data |-> 0, r |-> mode]

\* the absolute path a path string names, seen from directory cwd
Resolve(cwd, s) ==
  IF IsAbs(s) THEN CleanParts(Split(s), TRUE, <<>>)
  ELSE CleanParts(cwd \o Split(s), TRUE, <<>>)

Parent(p) == SubSeq(p, 1, Len(p) - 1)

Prefixes(p) == {SubSeq(p, 1, n) : n \in 0..Len(p)}

Exists(fs, cwd, s) == s # <<>> /\ Resolve(cwd, s) \in DOMAIN fs

IsDirAt(fs, cwd, s) == Exists(fs, cwd, s) /\ fs[Resolve(cwd, s)].dir

\* os.Stat, sftp.Stat
Stat(fs, cwd, s) ==
  IF ~Exists(fs, cwd, s) THEN [err |-> Err("stat", s), dir |-> FALSE, mode |-> FALSE]
  ELSE [err |-> NilErr, dir |-> fs[Resolve(cwd, s)].dir, mode |-> fs[Resolve(cwd, s)].r]

\* os.MkdirAll: an existing directory is reused; every missing ancestor is
\* created; a file in the way, or a path too long, is an error
MkdirAll(fs, cwd, s, mode) ==
  LET p == Resolve(cwd, s)
      blocked == \E q \in Prefixes(p) : q \in DOMAIN fs /\ ~fs[q].dir
      missing == {q \in Prefixes(p) : q \notin DOMAIN fs}
  IN IF s = <<>> \/ blocked \/ Len(p) > MaxDepth
       THEN [fs |-> fs, err |-> Err("mkdir", s)]
     ELSE [fs |-> [q \in DOMAIN fs \cup missing |->
                     IF q \in DOMAIN fs THEN fs[q] ELSE DirEntry(mode)],
           err |-> NilErr]

\* os.Open: the entry must exist and be readable
Open(fs, cwd, s) ==
  IF Exists(fs, cwd, s) /\ fs[Resolve(cwd, s)].r THEN NilErr ELSE Err("open", s)

\* os.Create: the parent must be a directory, the path no directory; the
\* file is created, or truncated when it exists
Create(fs, cwd, s) ==
  LET p == Resolve(cwd, s)
      ok == /\ s # <<>>
            /\ p # <<>>
            /\ Len(p) <= MaxDepth
            /\ Parent(p) \in DOMAIN fs
            /\ fs[Parent(p)].dir
            /\ (p \in DOMAIN fs => ~fs[p].dir /\ fs[p].r)
  IN IF ~ok THEN [fs |-> fs, err |-> Err("create", s)]
     ELSE [fs |-> [q \in DOMAIN fs \cup {p} |->
                     IF q = p THEN [dir |-> FALSE, data |-> 0, r |-> TRUE] ELSE fs[q]],
           err |-> NilErr]

\* the names in a directory
Children(fs, p) ==
  {q[Len(q)] : q \in {x \in DOMAIN fs : Len(x) = Len(p) + 1 /\ Parent(x) = p}}

\* ioutil.ReadDir: the entries of a readable directory, sorted by name
ReadDir(fs, cwd, s) ==
  IF IsDirAt(fs, cwd, s) /\ fs[Resolve(cwd, s)].r
    THEN [files |-> SortNames(Children(fs, Resolve(cwd, s))), err |-> NilErr]
  ELSE [files |-> <<>>, err |-> Err("readdir", s)]

\* IoCopy with the content left behind: the destination stays as created
IoCopyNothing(fs, cwd, dst, src) == fs

\* io.Copy(dst, src) between two open files: dst receives src's content as
\* it is when the copy runs
IoCopy(fs, cwd, dst, src) ==
  [fs EXCEPT ![Resolve(cwd, dst)].data = fs[Resolve(cwd, src)].data]

\* ------------------------------------------------------------------------
\* Local recursive copy
\* ------------------------------------------------------------------------

RECURSIVE copy(_, _, _, _)
RECURSIVE copyEntries(_, _, _, _, _)
RECURSIVE copyEntriesKeepGoing(_, _, _, _, _)

\* copyEntries with the error check moved after the loop: the entries after
\* a failing one are copied too
copyEntriesKeepGoing(fs, cwd, src, dest, files) ==
  IF files = <<>> THEN [fs |-> fs, err |-> NilErr]
  ELSE LET one == copy(fs, cwd, Join(<<src, Head(files)>>), Join(<<dest, Head(files)>>))
           more == copyEntriesKeepGoing(one.fs, cwd, src, dest, Tail(files))
       IN IF one.err # NilErr THEN [fs |-> more.fs, err |-> one.err] ELSE more

\* the loop of copy over the directory's entries: the first error returns
copyEntries(fs, cwd, src, dest, files) ==
  IF files = <<>> THEN [fs |-> fs, err |-> NilErr]
  ELSE LET one == copy(fs, cwd, Join(<<src, Head(files)>>), Join(<<dest, Head(files)>>))
       IN IF one.err # NilErr THEN one
          ELSE copyEntries(one.fs, cwd, src, dest, Tail(files))

\* copy(src, dest): the tree after the call and the error returned.  Both
\* files opened by the file branch are closed by its defers on every return.
copy(fs, cwd, src, dest) ==
  LET srcInfo == Stat(fs, cwd, src)
  IN IF srcInfo.err # NilErr THEN [fs |-> fs, err |-> srcInfo.err]
     ELSE IF srcInfo.dir
       THEN LET mk == MkdirAll(fs, cwd, dest, srcInfo.mode)
                rd == ReadDir(mk.fs, cwd, src)
            IN IF mk.err # NilErr THEN mk
               ELSE IF rd.err # NilErr THEN [fs |-> mk.fs, err |-> rd.err]
               ELSE copyEntries(mk.fs, cwd, src, dest, rd.files)
     ELSE LET op == Open(fs, cwd, src)
              cr == Create(fs, cwd, dest)
          IN IF op # NilErr THEN [fs |-> fs, err |-> op]
             ELSE IF cr.err # NilErr THEN cr
             ELSE [fs |-> IoCopy(cr.fs, cwd, dest, src), err |-> NilErr]

\* ------------------------------------------------------------------------
\* State
\* ------------------------------------------------------------------------

VARIABLES
  disk,      \* config/config.json: [state, current, repositories]
  lfs,       \* the local tree
  rfs,       \* the tree on the SFTP server
  pc,        \* where the process is
  args,      \* os.Args[1:] of the running process
  env,       \* what the network and the disk will answer to this process
  config,    \* the *Config the process loaded
  repo,      \* the handler's local copy  repo := config.Repositories[config.Current]
  client,    \* the SSH connection of the process: "none", "open", "closed"
  sftpc,     \* the SFTP session of the process: "none", "open", "closed"
  saves,     \* calls of saveConfig made by the process
  stdout,    \* the last message the process printed
  exitCode,  \* exit status of the process, -1 while it runs
  disk0,     \* config/config.json as it was when the process started
  call,      \* arguments of the transfer under test
  pre,       \* the trees before each call of the transfer under test
  ret,       \* the error the transfer under test returned
  transfers  \* the get and put command lines run so far

vars == <<disk, lfs, rfs, pc, args, env, config, repo, client, sftpc, saves,
          stdout, exitCode, disk0, call, pre, ret, transfers>>

cliVars == <<disk, args, env, config, repo, client, sftpc, saves, stdout,
             exitCode, disk0, transfers>>

\* the process's working directory (os.Getwd)
Cwd == <<<<"w">>>>

\* os.Getwd(): the working directory as a path string
Getwd == <<Separator>> \o JoinSep(Cwd)

\* the directory the SFTP server resolves relative paths from
RemoteHome == <<<<"h">>>>

File(n) == [dir |-> FALSE, data |-> n, r |-> TRUE]

NoRead(e) == [e EXCEPT !.r = FALSE]

\* marks a path that does not exist, when trees are enumerated
Absent == [dir |-> FALSE, data |-> 0 - 1, r |-> FALSE]

\* the tree that holds the present entries of f under root, root's
\* ancestors and the directories in base
TreeOf(base, root, f) ==
  LET present == {q \in DOMAIN f : f[q] # Absent}
      dom == base \cup Prefixes(root) \cup {root \o q : q \in present}
  IN [p \in dom |->
        IF \E q \in present : p = root \o q
          THEN f[CHOOSE q \in present : p = root \o q]
        ELSE DirEntry(TRUE)]

\* every present entry lies in a present directory
Closed(f) ==
  \A q \in DOMAIN f :
    (f[q] # Absent /\ Len(q) > 1) => (Parent(q) \in DOMAIN f /\ f[Parent(q)].dir)

\* the entries below root, by relative path: kind and content
Shape(fs, root) ==
  {<<SubSeq(q, Len(root) + 1, Len(q)), fs[q].dir, fs[q].data>> :
     q \in {x \in DOMAIN fs : Len(x) > Len(root) /\ SubSeq(x, 1, Len(root)) = root}}

\* ------------------------------------------------------------------------
\* Config and its JSON file
\* ------------------------------------------------------------------------

\* the zero value of type Repository
ZeroRepository ==
  [Type |-> "", Path |-> <<>>, Host |-> "", Port |-> 0, User |-> "",
   PrivateKey |-> "", Password |-> ""]

\* the zero value of type Config (a nil map has no keys)
ZeroConfig == [Current |-> <<>>, Repositories |-> <<>>]

\* the json tag of each field of Repository
JsonKey ==
  [Type |-> "type", Path |-> "path", Host |-> "host", Port |-> "port",
   User |-> "user", PrivateKey |-> "private_key", Password |-> "password"]

\* the fields tagged omitempty
OmitEmpty == {"Path", "Host", "Port", "User", "PrivateKey", "Password"}

\* json.Marshal of a Repository: a field tagged omitempty that holds its
\* zero value is left out
MarshalRepository(r) ==
  LET kept == {f \in DOMAIN JsonKey : f \notin OmitEmpty \/ r[f] # ZeroRepository[f]}
  IN [k \in {JsonKey[f] : f \in kept} |-> r[CHOOSE f \in kept : JsonKey[f] = k]]

\* json.Unmarshal into a Repository: a key that is missing leaves the zero value
UnmarshalRepository(o) ==
  [f \in DOMAIN JsonKey |-> IF JsonKey[f] \in DOMAIN o THEN o[JsonKey[f]] ELSE ZeroRepository[f]]

\* json.MarshalIndent(config): the document written to the file
Marshal(c) ==
  [state |-> "ok",
   current |-> c.Current,
   repositories |-> [n \in DOMAIN c.Repositories |-> MarshalRepository(c.Repositories[n])]]

\* loadConfig: a file that cannot be opened is an error; the error of
\* json.Unmarshal is dropped, so bytes that are no JSON document give the
\* zero Config
loadConfig(d) ==
  IF d.state = "missing" THEN [config |-> ZeroConfig, err |-> Err("open", <<>>)]
  ELSE IF d.state = "malformed" THEN [config |-> ZeroConfig, err |-> NilErr]
  ELSE [config |-> [Current |-> d.current,
                    Repositories |-> [n \in DOMAIN d.repositories |->
                                        UnmarshalRepository(d.repositories[n])]],
        err |-> NilErr]

\* what ioutil.WriteFile leaves in a file it truncated and could not fill:
\* a proper prefix of a JSON document, which is no JSON document
Truncated == [state |-> "malformed", current |-> <<>>, repositories |-> <<>>]

\* saveConfig under the disk's answer wr: "ok"; "open", the file cannot be
\* opened for writing and stays as it is; "short", the write fails after the
\* file was truncated
saveConfig(d, c, wr) ==
  IF wr = "ok" THEN [disk |-> Marshal(c), err |-> NilErr]
  ELSE IF wr = "open" THEN [disk |-> d, err |-> Err("write", <<>>)]
  ELSE [disk |-> Truncated, err |-> Err("write", <<>>)]

HasRepository(c, name) == name \in DOMAIN c.Repositories

\* config.Repositories[name]: the zero Repository when name is no key
RepositoryOf(c, name) ==
  IF HasRepository(c, name) THEN c.Repositories[name] ELSE ZeroRepository

\* ------------------------------------------------------------------------
\* SFTP transfers
\* ------------------------------------------------------------------------

Reverse(q) == [i \in 1..Len(q) |-> q[Len(q) + 1 - i]]

\* downloadFile(sftp, remotePath, localPath): the local tree after the call
\* and the error returned; both files are closed by the defers
downloadFile(remote, local, remotePath, localPath) ==
  LET op == Open(remote, RemoteHome, remotePath)
      cr == Create(local, Cwd, localPath)
  IN IF op # NilErr THEN [fs |-> local, err |-> Err("could not open remote file", remotePath)]
     ELSE IF cr.err # NilErr
       THEN [fs |-> local, err |-> Err("could not create local file", localPath)]
     ELSE IF remote[Resolve(RemoteHome, remotePath)].dir
       THEN [fs |-> cr.fs, err |-> Err("could not copy file contents", remotePath)]
     ELSE [fs |-> [cr.fs EXCEPT ![Resolve(Cwd, localPath)].data =
                                  remote[Resolve(RemoteHome, remotePath)].data],
           err |-> NilErr]

\* the walker's items for the entries of a directory, as sftp.ReadDir lists
\* them; the walker names each one path.Join(directory, name)
WalkItems(remote, dirPath, names) ==
  [i \in 1..Len(names) |->
     [path |-> Join(<<dirPath, names[i]>>),
      dir |-> remote[Resolve(RemoteHome, Join(<<dirPath, names[i]>>))].dir,
      err |-> NilErr]]

RECURSIVE walkLoop(_, _, _, _, _, _, _)
\* the loop  for walker.Step() { ... }  of downloadDirectory.  Step lists the
\* directory it visited last and pushes its entries (a listing that fails
\* comes back as the same item carrying the error), then pops the next item.
walkLoop(remote, local, remotePath, localPath, stack, cur, descend) ==
  LET rd == ReadDir(remote, RemoteHome, cur.path)
      expand == descend /\ cur.err = NilErr /\ cur.dir
      pushed == IF ~expand THEN stack
                ELSE IF rd.err # NilErr THEN Append(stack, [cur EXCEPT !.err = rd.err])
                ELSE stack \o Reverse(WalkItems(remote, cur.path, rd.files))
  IN IF pushed = <<>> THEN [fs |-> local, err |-> NilErr]
     ELSE LET item == pushed[Len(pushed)]
              rest == SubSeq(pushed, 1, Len(pushed) - 1)
              relPath == SliceFrom(item.path, Len(remotePath))
              localItemPath == Join(<<localPath, relPath>>)
              mk == MkdirAll(local, Cwd, localItemPath, TRUE)
              dl == downloadFile(remote, local, item.path, localItemPath)
          IN IF item.err # NilErr
               THEN [fs |-> local, err |-> Err("error walking remote directory", item.path)]
             ELSE IF relPath = <<>>
               THEN walkLoop(remote, local, remotePath, localPath, rest, item, TRUE)
             ELSE IF item.dir
               THEN IF mk.err # NilErr
                      THEN [fs |-> local,
                            err |-> Err("could not create local subdirectory", localItemPath)]
                    ELSE walkLoop(remote, mk.fs, remotePath, localPath, rest, item, TRUE)
             ELSE IF dl.err # NilErr THEN dl
             ELSE walkLoop(remote, dl.fs, remotePath, localPath, rest, item, TRUE)

\* downloadDirectory(sftp, remotePath, localPath)
downloadDirectory(remote, local, remotePath, localPath) ==
  LET mk == MkdirAll(local, Cwd, localPath, TRUE)
      st == Stat(remote, RemoteHome, remotePath)
      root == [path |-> remotePath, dir |-> st.dir, err |-> st.err]
  IN IF mk.err # NilErr
       THEN [fs |-> local, err |-> Err("could not create local directory", localPath)]
     ELSE walkLoop(remote, mk.fs, remotePath, localPath, <<root>>, root, FALSE)

\* client.Upload(localPath, remotePath) of goph: open the local file, open an
\* SFTP session, create the remote file, io.Copy; a directory cannot be read
\* as a file, so uploading one fails after the remote file was created
Upload(local, remote, localPath, remotePath, sessionOk) ==
  LET op == Open(local, Cwd, localPath)
      cr == Create(remote, RemoteHome, remotePath)
  IN IF op # NilErr THEN [fs |-> remote, err |-> op]
     ELSE IF ~sessionOk THEN [fs |-> remote, err |-> Err("sftp", <<>>)]
     ELSE IF cr.err # NilErr THEN [fs |-> remote, err |-> cr.err]
     ELSE IF local[Resolve(Cwd, localPath)].dir
       THEN [fs |-> cr.fs, err |-> Err("read", localPath)]
     ELSE [fs |-> [cr.fs EXCEPT ![Resolve(RemoteHome, remotePath)].data =
                                  local[Resolve(Cwd, localPath)].data],
           err |-> NilErr]

\* the ssh branch of getRepository once the session is open: the paths, the
\* stat of the remote path, and the download of a directory or of a file
getRemote(remote, local, repoPath, name, wd) ==
  LET remotePath == ToSlash(Join(<<repoPath, name>>))
      localPath == Join(<<Getwd, name>>)
      remoteStat == Stat(remote, RemoteHome, remotePath)
  IN IF ~wd THEN [fs |-> local, err |-> Err("getwd", <<>>)]
     ELSE IF remoteStat.err # NilErr THEN [fs |-> local, err |-> remoteStat.err]
     ELSE IF remoteStat.dir THEN downloadDirectory(remote, local, remotePath, localPath)
     ELSE downloadFile(remote, local, remotePath, localPath)

\* ------------------------------------------------------------------------
\* Names and trees the model runs on
\* ------------------------------------------------------------------------

NameA == <<"a">>

NameB == <<"b">>

NameN == <<"n">>

NameSub == <<"s", "u", "b">>

NameX == <<"x">>

\* "/r", the directory of the local repository
PathR == <<"/", "r">>

\* "/w/x" and "x": the same destination, absolute and relative
PathWX == <<"/", "w", "/", "x">>

Merge(t1, t2) ==
  [p \in DOMAIN t1 \cup DOMAIN t2 |-> IF p \in DOMAIN t1 THEN t1[p] ELSE t2[p]]

AllOptions ==
  {Absent, File(1), File(2), NoRead(File(1)), DirEntry(TRUE), DirEntry(FALSE)}

\* the source trees: entries a, b, sub, sub/a, sub/b, each absent, a file
\* (readable or not) or a directory (readable or not)
SrcPaths == {<<NameA>>, <<NameB>>, <<NameSub>>, <<NameSub, NameA>>, <<NameSub, NameB>>}

SrcOptions(q) ==
  CASE q = <<NameA>> -> {Absent, File(1), File(2), NoRead(File(1)), DirEntry(TRUE)}
    [] q = <<NameB>> -> {Absent, File(1)}
    [] q = <<NameSub>> -> {Absent, DirEntry(TRUE), DirEntry(FALSE), File(2)}
    [] q = <<NameSub, NameA>> -> {Absent, File(1), NoRead(File(1)), DirEntry(TRUE)}
    [] q = <<NameSub, NameB>> -> {Absent, File(2)}

SrcTrees ==
  {f \in [SrcPaths -> AllOptions] : Closed(f) /\ \A q \in SrcPaths : f[q] \in SrcOptions(q)}

\* what the destination directory holds before the copy: nothing, or entries
\* a, sub, n that agree or clash with the source's
DstPaths == {<<NameA>>, <<NameSub>>, <<NameN>>}

DstOptions(q) ==
  CASE q = <<NameA>> -> {Absent, File(2), DirEntry(TRUE)}
    [] q = <<NameSub>> -> {Absent, File(1), DirEntry(TRUE)}
    [] q = <<NameN>> -> {Absent, File(1)}

DstTrees ==
  {f \in [DstPaths -> AllOptions] : \A q \in DstPaths : f[q] \in DstOptions(q)}

\* the process between two runs
AtRest ==
  /\ args = [n |-> 0, cmd |-> "", arg |-> <<>>]
  /\ env = [net |-> "ok", wr |-> "ok", wd |-> TRUE]
  /\ config = ZeroConfig
  /\ repo = ZeroRepository
  /\ client = "none"
  /\ sftpc = "none"
  /\ saves = 0
  /\ stdout = ""
  /\ exitCode = 0 - 1

NoDisk == [state |-> "missing", current |-> <<>>, repositories |-> <<>>]

\* ------------------------------------------------------------------------
\* The local copy on its own: copy(src, dest) called on a source tree and a
\* destination, then called again
\* ------------------------------------------------------------------------

MaxCalls == 2

InitCopy ==
  /\ AtRest
  /\ disk = NoDisk
  /\ disk0 = NoDisk
  /\ rfs = TreeOf({}, RemoteHome, <<>>)
  /\ \E d \in SrcTrees :
       \/ lfs = Merge(TreeOf({}, <<<<"r">>>>, d), TreeOf({}, Cwd, <<>>))
       \/ \E e \in DstTrees :
            lfs = Merge(TreeOf({}, <<<<"r">>>>, d), TreeOf({}, <<<<"w">>, NameX>>, e))
  /\ call \in [src : {PathR}, dest : {PathWX, NameX}]
  /\ pre = <<>>
  /\ ret = <<>>
  /\ transfers = 0
  /\ pc = "ready"

CopyCall ==
  /\ pc \in {"ready", "copied"}
  /\ Len(pre) < MaxCalls
  /\ LET r == copy(lfs, Cwd, call.src, call.dest)
     IN /\ lfs' = r.fs
        /\ ret' = Append(ret, r.err)
  /\ pre' = Append(pre, lfs)
  /\ pc' = "copied"
  /\ UNCHANGED <<cliVars, rfs, call>>

NextCopy == CopyCall

SpecCopy == InitCopy /\ [][NextCopy]_vars

\* --- what the claims about copy speak of ---

AllNil(errs) == \A i \in DOMAIN errs : errs[i] = NilErr

\* the destination is absent, or a directory that holds nothing
DestClean(fs, dest) ==
  \/ ~Exists(fs, Cwd, dest)
  \/ IsDirAt(fs, Cwd, dest) /\ Children(fs, Resolve(Cwd, dest)) = {}

RECURSIVE PreOrder(_, _)
RECURSIVE PreOrderAll(_, _, _)
\* the entries of the tree at p in the order copy visits them: a directory,
\* then its entries by name, each with what lies below it
PreOrder(fs, p) ==
  <<p>> \o (IF fs[p].dir THEN PreOrderAll(fs, p, SortNames(Children(fs, p))) ELSE <<>>)

PreOrderAll(fs, p, names) ==
  IF names = <<>> THEN <<>>
  ELSE PreOrder(fs, Append(p, Head(names))) \o PreOrderAll(fs, p, Tail(names))

\* the entry an error is about, relative to the root of the copy: the errors
\* of stat, open and readdir name a source path, those of mkdir and create a
\* destination path
FailedEntry(e, c) ==
  LET p == Resolve(Cwd, e.path)
      root == IF e.op \in {"stat", "open", "readdir"} THEN Resolve(Cwd, c.src)
              ELSE Resolve(Cwd, c.dest)
  IN SubSeq(p, Len(root) + 1, Len(p))

\* the call that failed fails in the same way on the tree the copy left
FailsAgain(fs, e) ==
  CASE e.op = "stat" -> Stat(fs, Cwd, e.path).err = e
    [] e.op = "open" -> Open(fs, Cwd, e.path) = e
    [] e.op = "readdir" -> ReadDir(fs, Cwd, e.path).err = e
    [] e.op = "mkdir" -> MkdirAll(fs, Cwd, e.path, TRUE).err = e
    [] e.op = "create" -> Create(fs, Cwd, e.path).err = e
    [] OTHER -> FALSE

SameAt(fs1, fs2, p) ==
  /\ p \in DOMAIN fs1 <=> p \in DOMAIN fs2
  /\ p \in DOMAIN fs1 => fs1[p] = fs2[p]

\* the destination holds the source entry: same kind, and a file's content
CopiedTo(before, after, s, d) ==
  /\ d \in DOMAIN after
  /\ after[d].dir = before[s].dir
  /\ ~before[s].dir => after[d].data = before[s].data

\* C5: copy(src, dst) of a directory tree D into a destination E that is
\* empty or absent, when it returns no error, leaves in E exactly D's
\* entries at every depth, with the same kind and each file's content; the
\* same copy run a second time leaves E as it was.
C5_CopyReproducesTree ==
  (pc = "copied" /\ DestClean(pre[1], call.dest) /\ AllNil(ret)) =>
    /\ Shape(lfs, Resolve(Cwd, call.dest)) = Shape(pre[1], Resolve(Cwd, call.src))
    /\ Len(pre) = 2 =>
         Shape(lfs, Resolve(Cwd, call.dest)) = Shape(pre[2], Resolve(Cwd, call.dest))

\* a tree with a nested file was copied twice into an absent destination
C5_Witness ==
  /\ pc = "copied"
  /\ Len(pre) = 2
  /\ AllNil(ret)
  /\ ~Exists(pre[1], Cwd, call.dest)
  /\ <<<<NameSub, NameB>>, FALSE, 2>> \in Shape(pre[1], Resolve(Cwd, call.src))
  /\ <<<<NameA>>, FALSE, 1>> \in Shape(pre[1], Resolve(Cwd, call.src))
  /\ <<<<NameSub, NameB>>, FALSE, 2>> \in Shape(lfs, Resolve(Cwd, call.dest))

\* C7: the first error of a local recursive copy ends it: the error returned
\* is the error of the call that failed, no entry that comes after the
\* failing one in the order of the copy is created or written in the
\* destination, and every entry that comes before it is in the destination.
C7_FirstErrorAborts ==
  (pc = "copied" /\ Len(pre) = 1 /\ ret[1] # NilErr) =>
    LET src == Resolve(Cwd, call.src)
        dst == Resolve(Cwd, call.dest)
        order == PreOrder(pre[1], src)
        failed == src \o FailedEntry(ret[1], call)
    IN /\ FailsAgain(lfs, ret[1])
       /\ \E i \in DOMAIN order :
            /\ order[i] = failed
            /\ \A j \in DOMAIN order :
                 LET rel == SubSeq(order[j], Len(src) + 1, Len(order[j]))
                 IN /\ j > i => SameAt(lfs, pre[1], dst \o rel)
                    /\ j < i => CopiedTo(pre[1], lfs, order[j], dst \o rel)

\* a copy failed on sub/a after it copied a, and left sub/b alone
C7_Witness ==
  /\ pc = "copied"
  /\ Len(pre) = 1
  /\ ret[1] # NilErr
  /\ FailedEntry(ret[1], call) = <<NameSub, NameA>>
  /\ <<<<NameSub, NameB>>, FALSE, 2>> \in Shape(pre[1], Resolve(Cwd, call.src))
  /\ <<<<NameA>>, FALSE, 1>> \in Shape(lfs, Resolve(Cwd, call.dest))
  /\ Resolve(Cwd, call.dest) \o <<NameSub, NameB>> \notin DOMAIN lfs

\* ------------------------------------------------------------------------
\* The download on its own: the ssh branch of `get <name>` on a remote tree
\* ------------------------------------------------------------------------

\* what the working directory holds before the download
LocalTrees ==
  {f \in [{<<NameA>>, <<NameSub>>} -> AllOptions] :
     /\ f[<<NameA>>] \in {Absent, File(2), DirEntry(TRUE)}
     /\ f[<<NameSub>>] \in {Absent, DirEntry(TRUE)}}

\* the path of the repository and the name given to get
GetCalls ==
  [path : {<<>>, Dot, <<"/", "h">>, <<"/">>}, name : {Dot, NameSub, <<"h">>}]

InitDownload ==
  /\ AtRest
  /\ disk = NoDisk
  /\ disk0 = NoDisk
  /\ \E d \in SrcTrees : rfs = TreeOf({}, RemoteHome, d)
  /\ \E e \in LocalTrees : lfs = TreeOf({}, Cwd, e)
  /\ call \in GetCalls
  /\ pre = <<>>
  /\ ret = <<>>
  /\ transfers = 0
  /\ pc = "ready"

Download ==
  /\ pc = "ready"
  /\ LET r == getRemote(rfs, lfs, call.path, call.name, TRUE)
     IN /\ lfs' = r.fs
        /\ ret' = Append(ret, r.err)
  /\ pre' = Append(pre, lfs)
  /\ pc' = "downloaded"
  /\ UNCHANGED <<cliVars, rfs, call>>

NextDownload == Download

SpecDownload == InitDownload /\ [][NextDownload]_vars

\* the entries of a tree strictly below root
Below(fs, root) ==
  {q \in DOMAIN fs : Len(q) > Len(root) /\ SubSeq(q, 1, Len(root)) = root}

\* C6: downloadDirectory(remotePath, localPath), when it returns no error,
\* has created localPath and, for every entry of the remote tree other than
\* the root, a local directory for a remote directory and a local file with
\* the same content for a remote file, at localPath joined with the entry's
\* path relative to remotePath; it has created nothing else.
C6_DownloadMirrorsTree ==
  LET remotePath == ToSlash(Join(<<call.path, call.name>>))
      root == Resolve(RemoteHome, remotePath)
      loc == Resolve(Cwd, Join(<<Getwd, call.name>>))
      rels == {SubSeq(q, Len(root) + 1, Len(q)) : q \in Below(rfs, root)}
  IN (pc = "downloaded" /\ ret[1] = NilErr /\ IsDirAt(rfs, RemoteHome, remotePath)) =>
       /\ loc \in DOMAIN lfs
       /\ lfs[loc].dir
       /\ \A rel \in rels : CopiedTo(rfs, lfs, root \o rel, loc \o rel)
       /\ DOMAIN lfs = DOMAIN pre[1] \cup Prefixes(loc) \cup {loc \o rel : rel \in rels}

\* the same with the remote path "." set aside
C6_ExceptDot ==
  ToSlash(Join(<<call.path, call.name>>)) # Dot => C6_DownloadMirrorsTree
\* ------------------------------------------------------------------------
\* The command handlers
\* ------------------------------------------------------------------------

\* the case of  switch repo.Type  a handler takes
Branch(type) ==
  IF type \in {"local", "network"} THEN "local"
  ELSE IF type = "ssh" THEN "ssh"
  ELSE "default"

\* filepath.Abs(name); it fails when the working directory cannot be read
Abs(name, wd) ==
  IF IsAbs(name) THEN [path |-> Clean(name), err |-> NilErr]
  ELSE IF ~wd THEN [path |-> <<>>, err |-> Err("getwd", <<>>)]
  ELSE [path |-> Join(<<Getwd, name>>), err |-> NilErr]

\* mainUsage with the status of a run that did nothing wrong
mainUsageZero(n) == [exit |-> 0, out |-> "Usage"]

\* the two places main prints the usage: with no command it calls
\* os.Exit(1); for a command it does not know it returns
mainUsage(n) ==
  IF n = 0 THEN [exit |-> 1, out |-> "Usage"] ELSE [exit |-> 0, out |-> "Usage"]

\* setRepository that accepts any name
setRepositoryUnchecked(c, d, name, wr) ==
  LET c2 == [c EXCEPT !.Current = name]
      sv == saveConfig(d, c2, wr)
  IN [config |-> c2, disk |-> sv.disk, saves |-> 1,
      exit |-> IF sv.err # NilErr THEN 1 ELSE 0, out |-> "Current repository set"]

\* setRepository that forgets to save
setRepositoryNoSave(c, d, name, wr) ==
  IF ~HasRepository(c, name)
    THEN [config |-> c, disk |-> d, saves |-> 0, exit |-> 1, out |-> "Repository not found"]
  ELSE [config |-> [c EXCEPT !.Current = name], disk |-> d, saves |-> 1, exit |-> 0,
        out |-> "Current repository set"]

\* setRepository(config, name): the Config it leaves in memory, the file, the
\* calls of saveConfig, the exit status and the message
setRepository(c, d, name, wr) ==
  LET c2 == [c EXCEPT !.Current = name]
      sv == saveConfig(d, c2, wr)
  IN IF ~HasRepository(c, name)
       THEN [config |-> c, disk |-> d, saves |-> 0, exit |-> 1, out |-> "Repository not found"]
     ELSE IF sv.err # NilErr
       THEN [config |-> c2, disk |-> sv.disk, saves |-> 1, exit |-> 1,
             out |-> "Error saving configuration"]
     ELSE [config |-> c2, disk |-> sv.disk, saves |-> 1, exit |-> 0,
           out |-> "Current repository set"]

\* showRepository, case "local", "network"
showLocal(fs, rp) ==
  IF ReadDir(fs, Cwd, rp.Path).err # NilErr
    THEN [exit |-> 1, out |-> "Error reading repository"]
  ELSE [exit |-> 0, out |-> "listing"]

\* getRepository, case "local", "network"
getLocal(fs, rp, name, wd) ==
  LET srcPath == Join(<<rp.Path, name>>)
      destPath == Join(<<Getwd, name>>)
      cp == copy(fs, Cwd, srcPath, destPath)
  IN IF ~wd THEN [fs |-> fs, exit |-> 1, out |-> "Error getting current directory"]
     ELSE IF cp.err # NilErr
       THEN [fs |-> cp.fs, exit |-> 1, out |-> "Error getting file or folder"]
     ELSE [fs |-> cp.fs, exit |-> 0, out |-> ""]

\* putRepository, case "local", "network"
putLocal(fs, rp, name, wd) ==
  LET srcPath == Abs(name, wd)
      destPath == Join(<<rp.Path, name>>)
      cp == copy(fs, Cwd, srcPath.path, destPath)
  IN IF srcPath.err # NilErr THEN [fs |-> fs, exit |-> 1, out |-> "Error getting absolute path"]
     ELSE IF cp.err # NilErr
       THEN [fs |-> cp.fs, exit |-> 1, out |-> "Error putting file or folder"]
     ELSE [fs |-> cp.fs, exit |-> 0, out |-> ""]

\* cdCheck without the test of info.IsDir()
cdCheckAnyEntry(fs, cwd, rp, newPath) ==
  IF Stat(fs, cwd, newPath).err # NilErr
    THEN [repo |-> rp, exit |-> 1, out |-> "Error accessing path"]
  ELSE [repo |-> [rp EXCEPT !.Path = newPath], exit |-> 0, out |-> ""]

\* changeDirectory up to the end of its switch: the stat of the new path on
\* the tree of the repository, seen from directory cwd; repo.Path is
\* assigned when the path is a directory
cdCheck(fs, cwd, rp, newPath) ==
  LET info == Stat(fs, cwd, newPath)
  IN IF info.err # NilErr THEN [repo |-> rp, exit |-> 1, out |-> "Error accessing path"]
     ELSE IF ~info.dir THEN [repo |-> rp, exit |-> 1, out |-> "Error: not a directory"]
     ELSE [repo |-> [rp EXCEPT !.Path = newPath], exit |-> 0, out |-> ""]

\* StoreRepository that builds the map anew with the one repository
StoreRepositoryAlone(c, rp) == [c EXCEPT !.Repositories = (c.Current :> rp)]

\* config.Repositories[config.Current] = repo
StoreRepository(c, rp) ==
  [c EXCEPT !.Repositories =
     [n \in DOMAIN c.Repositories \cup {c.Current} |->
        IF n = c.Current THEN rp ELSE c.Repositories[n]]]

\* getSSHClient(repo) under the network's answer: the key is read only when
\* the repository has no password; then the connection is made
getSSHClient(rp, net) ==
  IF rp.Password = "" /\ net = "key" THEN Err("key", <<>>)
  ELSE IF net = "dial" THEN Err("dial", <<>>)
  ELSE NilErr

\* ------------------------------------------------------------------------
\* The program: one process per command line, one after the other
\* ------------------------------------------------------------------------

NameH == <<"h">>

NameS == <<"s">>

NameU == <<"u">>

\* the repositories of the configuration the model starts from: h a local
\* (or network) directory, s an SSH server, x of a type no handler knows
Repositories0(htype, password) ==
  (NameH :> [ZeroRepository EXCEPT !.Type = htype, !.Path = PathR]) @@
  (NameS :> [ZeroRepository EXCEPT !.Type = "ssh", !.Host = "host", !.Port = 22,
                                   !.User = "user", !.Password = password,
                                   !.PrivateKey = IF password = "" THEN "id_rsa" ELSE ""]) @@
  (NameX :> [ZeroRepository EXCEPT !.Type = "ftp", !.Path = PathR])

Configs0 ==
  {[Current |-> cur, Repositories |-> Repositories0(u[1], u[2])] :
     cur \in {<<>>, NameH, NameU},
     u \in {<<"local", "secret">>, <<"network", "">>}}

\* "config" and "config.json", the names in the relative path
\* "config/config.json" that loadConfig opens and saveConfig writes
NameConfig == <<"c", "o", "n", "f", "i", "g">>

NameConfigJson == <<"c", "o", "n", "f", "i", "g", ".", "j", "s", "o", "n">>

\* where "config/config.json" lies: below the working directory
ConfigDir == Cwd \o <<NameConfig>>

ConfigFile == ConfigDir \o <<NameConfigJson>>

\* a Config document kept in the repository directory, whose current names
\* no repository
ForeignConfig == [Current |-> NameU, Repositories |-> Repositories0("local", "secret")]

\* a file that holds the document of ForeignConfig
ForeignFile == File(3)

\* the configuration file among the files of the working directory; its
\* content is the value of disk
OwnFile == File(4)

\* the local tree a transfer into the working directory works on: lfs and
\* the configuration file the process has read
WithConfigFile(fs) ==
  Merge((ConfigDir :> DirEntry(TRUE)) @@ (ConfigFile :> OwnFile), fs)

WithoutConfigFile(fs) == [p \in DOMAIN fs \ {ConfigDir, ConfigFile} |-> fs[p]]

\* what loadConfig finds in the configuration file after a transfer: the
\* document it held when the transfer left it alone, the document of the
\* file copied over it, or bytes that are no JSON document
ConfigFileAfter(fs, d) ==
  IF fs[ConfigFile] = OwnFile THEN d
  ELSE IF fs[ConfigFile].data = ForeignFile.data THEN Marshal(ForeignConfig)
  ELSE Truncated

\* /r holds file a, directory sub with file b, and directory config with
\* a file config.json; /w, the working directory, holds the configuration
\* file alone
LocalTree0 ==
  Merge(TreeOf({}, <<<<"r">>>>,
               (<<NameA>> :> File(1)) @@ (<<NameSub>> :> DirEntry(TRUE)) @@
               (<<NameSub, NameB>> :> File(2)) @@
               (<<NameConfig>> :> DirEntry(TRUE)) @@
               (<<NameConfig, NameConfigJson>> :> ForeignFile)),
        TreeOf({}, Cwd, <<>>))

\* the server's home /h holds file a and directory sub with file b
RemoteTree0 ==
  TreeOf({}, RemoteHome,
         (<<NameA>> :> File(1)) @@ (<<NameSub>> :> DirEntry(TRUE)) @@
         (<<NameSub, NameB>> :> File(2)))

Commands == {"list", "set", "show", "get", "put", "cd"}

WithArgument == {"set", "get", "put", "cd"}

\* the longest repository path `cd` is still run on
MaxPath == 2

\* the get and put command lines one behaviour runs
MaxTransfers == 2

ArgsOf(cmd) ==
  CASE cmd = "set" -> {NameH, NameS, NameX, NameU}
    [] cmd = "get" -> {NameA, NameSub, NameN, NameConfig}
    [] cmd = "put" -> {NameA, NameSub}
    [] cmd = "cd" -> {NameSub, DotDot, NameA, NameN}
    [] OTHER -> {}

CommandLines ==
  {[n |-> 0, cmd |-> "", arg |-> <<>>]}
  \cup {[n |-> 1, cmd |-> c, arg |-> <<>>] : c \in Commands \cup {"bogus"}}
  \cup UNION {{[n |-> 2, cmd |-> c, arg |-> a] : a \in ArgsOf(c)} : c \in WithArgument}

\* the answers that can matter to a command line run on Config c: the
\* network for a command on an ssh repository, the write for set and cd, the
\* working directory for get and put
Answers(a, c) ==
  LET rp == RepositoryOf(c, c.Current)
      onSsh == a.cmd \in {"show", "get", "put", "cd"} /\ Branch(rp.Type) = "ssh"
                 /\ (a.cmd = "show" \/ a.n >= 2)
      nets == IF ~onSsh THEN {"ok"}
              ELSE {"ok", "dial"}
                   \cup (IF rp.Password = "" THEN {"key"} ELSE {})
                   \cup {"sftp"}
      wrs == IF a.cmd \in {"set", "cd"} /\ a.n >= 2 THEN {"ok", "open", "short"} ELSE {"ok"}
      wds == IF a.cmd \in {"get", "put"} /\ a.n >= 2 THEN {TRUE, FALSE} ELSE {TRUE}
  IN {e \in [net : nets, wr : wrs, wd : wds] :
        (e.net = "ok" \/ e.wr = "ok") /\ (e.net = "ok" \/ e.wd) /\ (e.wr = "ok" \/ e.wd)}

Init ==
  /\ AtRest
  /\ \/ disk \in {Marshal(c) : c \in Configs0}
     \/ disk \in {NoDisk, Truncated}
  /\ disk0 = disk
  /\ lfs = LocalTree0
  /\ rfs = RemoteTree0
  /\ call = [path |-> <<>>, name |-> <<>>]
  /\ pre = <<>>
  /\ ret = <<>>
  /\ transfers = 0
  /\ pc = "start"

Exit(code, msg) ==
  /\ pc' = "exited"
  /\ exitCode' = code
  /\ stdout' = msg

\* the handler returned: its deferred Close calls run, then main returns
Returning(msg) ==
  /\ pc' = "returning"
  /\ stdout' = msg
  /\ UNCHANGED exitCode

\* main up to the command switch: loadConfig and os.Args
Start ==
  /\ pc = "start"
  /\ \E a \in CommandLines :
       \E e \in Answers(a, loadConfig(disk).config) :
         /\ (a.cmd \in {"get", "put"} /\ a.n >= 2) => transfers < MaxTransfers
         /\ a.cmd = "cd" =>
              Len(RepositoryOf(loadConfig(disk).config, loadConfig(disk).config.Current).Path)
                <= MaxPath
         /\ args' = a
         /\ env' = e
  /\ disk0' = disk
  /\ config' = loadConfig(disk).config
  /\ IF loadConfig(disk).err # NilErr
       THEN Exit(1, "Error loading configuration")
     ELSE pc' = "main" /\ UNCHANGED <<exitCode, stdout>>
  /\ transfers' = transfers + (IF args'.cmd \in {"get", "put"} /\ args'.n >= 2 THEN 1 ELSE 0)
  /\ UNCHANGED <<disk, lfs, rfs, repo, client, sftpc, saves, call, pre, ret>>

\* len(args) == 0
NoCommand ==
  /\ pc = "main"
  /\ args.n = 0
  /\ Exit(mainUsage(args.n).exit, mainUsage(args.n).out)
  /\ UNCHANGED <<disk, lfs, rfs, args, env, config, repo, client, sftpc, saves, disk0,
                 call, pre, ret, transfers>>

\* default: of the command switch; main returns after printUsage
UnknownCommand ==
  /\ pc = "main"
  /\ args.n >= 1
  /\ args.cmd \notin Commands
  /\ Exit(mainUsage(args.n).exit, mainUsage(args.n).out)
  /\ UNCHANGED <<disk, lfs, rfs, args, env, config, repo, client, sftpc, saves, disk0,
                 call, pre, ret, transfers>>

\* len(args) < 2 for set, get, put, cd
MissingArgument ==
  /\ pc = "main"
  /\ args.n = 1
  /\ args.cmd \in WithArgument
  /\ Exit(1, "Please specify")
  /\ UNCHANGED <<disk, lfs, rfs, args, env, config, repo, client, sftpc, saves, disk0,
                 call, pre, ret, transfers>>

ListRepositories ==
  /\ pc = "main"
  /\ args.n >= 1
  /\ args.cmd = "list"
  /\ Exit(0, "Available repositories")
  /\ UNCHANGED <<disk, lfs, rfs, args, env, config, repo, client, sftpc, saves, disk0,
                 call, pre, ret, transfers>>

SetRepository ==
  /\ pc = "main"
  /\ args.n >= 2
  /\ args.cmd = "set"
  /\ LET r == setRepository(config, disk, args.arg, env.wr)
     IN /\ config' = r.config
        /\ disk' = r.disk
        /\ saves' = saves + r.saves
        /\ Exit(r.exit, r.out)
  /\ UNCHANGED <<lfs, rfs, args, env, repo, client, sftpc, disk0, call, pre, ret, transfers>>

\* the handler's first line and its switch on repo.Type
Handles(cmd, branch) ==
  /\ pc = "main"
  /\ args.cmd = cmd
  /\ args.n >= (IF cmd = "show" THEN 1 ELSE 2)
  /\ Branch(RepositoryOf(config, config.Current).Type) = branch

ShowLocal ==
  /\ Handles("show", "local")
  /\ repo' = RepositoryOf(config, config.Current)
  /\ LET r == showLocal(lfs, repo')
     IN Exit(r.exit, r.out)
  /\ UNCHANGED <<disk, lfs, rfs, args, env, config, client, sftpc, saves, disk0,
                 call, pre, ret, transfers>>

GetLocal ==
  /\ Handles("get", "local")
  /\ repo' = RepositoryOf(config, config.Current)
  /\ LET r == getLocal(WithConfigFile(lfs), repo', args.arg, env.wd)
     IN /\ lfs' = WithoutConfigFile(r.fs)
        /\ disk' = ConfigFileAfter(r.fs, disk)
        /\ Exit(r.exit, r.out)
  /\ UNCHANGED <<rfs, args, env, config, client, sftpc, saves, disk0, call, pre, ret, transfers>>

PutLocal ==
  /\ Handles("put", "local")
  /\ repo' = RepositoryOf(config, config.Current)
  /\ LET r == putLocal(lfs, repo', args.arg, env.wd)
     IN /\ lfs' = r.fs
        /\ Exit(r.exit, r.out)
  /\ UNCHANGED <<disk, rfs, args, env, config, client, sftpc, saves, disk0, call, pre, ret, transfers>>

\* changeDirectory, case "local", "network"
CdLocal ==
  /\ Handles("cd", "local")
  /\ LET rp == RepositoryOf(config, config.Current)
         r == cdCheck(lfs, Cwd, rp, Join(<<rp.Path, args.arg>>))
     IN /\ repo' = r.repo
        /\ IF r.exit # 0 THEN Exit(r.exit, r.out)
           ELSE pc' = "save" /\ UNCHANGED <<exitCode, stdout>>
  /\ UNCHANGED <<disk, lfs, rfs, args, env, config, client, sftpc, saves, disk0,
                 call, pre, ret, transfers>>

\* default: of a handler's switch: a message, and the handler returns
NotImplemented ==
  /\ \E cmd \in {"show", "get", "put", "cd"} : Handles(cmd, "default")
  /\ repo' = RepositoryOf(config, config.Current)
  /\ Returning("not implemented yet")
  /\ UNCHANGED <<disk, lfs, rfs, args, env, config, client, sftpc, saves, disk0,
                 call, pre, ret, transfers>>

\* case "ssh" of show, get, put, cd: getSSHClient; cd first turns an empty
\* path into "."
SshConnect ==
  /\ \E cmd \in {"show", "get", "put", "cd"} : Handles(cmd, "ssh")
  /\ LET rp == RepositoryOf(config, config.Current)
     IN repo' = IF args.cmd = "cd" /\ rp.Path = <<>> THEN [rp EXCEPT !.Path = Dot] ELSE rp
  /\ IF getSSHClient(repo', env.net) # NilErr
       THEN Exit(1, "Error connecting to SSH server") /\ UNCHANGED client
     ELSE /\ client' = "open"
          /\ pc' = "connected"
          /\ UNCHANGED <<exitCode, stdout>>
  /\ UNCHANGED <<disk, lfs, rfs, args, env, config, sftpc, saves, disk0, call, pre, ret, transfers>>

\* client.NewSftp() of show, get, cd
SshNewSftp ==
  /\ pc = "connected"
  /\ args.cmd \in {"show", "get", "cd"}
  /\ IF env.net = "sftp"
       THEN Exit(1, "Error creating SFTP client") /\ UNCHANGED sftpc
     ELSE /\ sftpc' = "open"
          /\ pc' = "session"
          /\ UNCHANGED <<exitCode, stdout>>
  /\ UNCHANGED <<disk, lfs, rfs, args, env, config, repo, client, saves, disk0,
                 call, pre, ret, transfers>>

\* showRepository, case "ssh": sftp.ReadDir(repo.Path)
ShowSsh ==
  /\ pc = "session"
  /\ args.cmd = "show"
  /\ IF ReadDir(rfs, RemoteHome, repo.Path).err # NilErr
       THEN Exit(1, "Error reading remote directory")
     ELSE Returning("listing")
  /\ UNCHANGED <<disk, lfs, rfs, args, env, config, repo, client, sftpc, saves, disk0,
                 call, pre, ret, transfers>>

\* getRepository, case "ssh", after the session is open
GetSsh ==
  /\ pc = "session"
  /\ args.cmd = "get"
  /\ LET r == getRemote(rfs, WithConfigFile(lfs), repo.Path, args.arg, env.wd)
     IN /\ lfs' = WithoutConfigFile(r.fs)
        /\ disk' = ConfigFileAfter(r.fs, disk)
        /\ IF r.err # NilErr THEN Exit(1, "Error during get") ELSE Returning("Downloaded")
  /\ UNCHANGED <<rfs, args, env, config, repo, client, sftpc, saves, disk0,
                 call, pre, ret, transfers>>

\* putRepository, case "ssh", after the connection is made
PutSsh ==
  /\ pc = "connected"
  /\ args.cmd = "put"
  /\ LET localPath == Abs(args.arg, env.wd)
         remotePath == ToSlash(Join(<<repo.Path, args.arg>>))
         up == Upload(lfs, rfs, localPath.path, remotePath, env.net # "sftp")
     IN IF localPath.err # NilErr
          THEN Exit(1, "Error getting absolute path") /\ UNCHANGED rfs
        ELSE /\ rfs' = up.fs
             /\ IF up.err # NilErr THEN Exit(1, "Error uploading file") ELSE Returning("")
  /\ UNCHANGED <<disk, lfs, args, env, config, repo, client, sftpc, saves, disk0,
                 call, pre, ret, transfers>>

\* CdSsh with the session and the connection closed before the handler goes
\* on to save
CdSshCloseFirst ==
  /\ pc = "session"
  /\ args.cmd = "cd"
  /\ LET r == cdCheck(rfs, RemoteHome, repo, ToSlash(Join(<<repo.Path, args.arg>>)))
     IN /\ repo' = r.repo
        /\ IF r.exit # 0 THEN Exit(r.exit, r.out) /\ UNCHANGED <<client, sftpc>>
           ELSE /\ pc' = "save"
                /\ client' = "closed"
                /\ sftpc' = "closed"
                /\ UNCHANGED <<exitCode, stdout>>
  /\ UNCHANGED <<disk, lfs, rfs, args, env, config, saves, disk0,
                 call, pre, ret, transfers>>

\* changeDirectory, case "ssh", after the session is open
CdSsh ==
  /\ pc = "session"
  /\ args.cmd = "cd"
  /\ LET r == cdCheck(rfs, RemoteHome, repo, ToSlash(Join(<<repo.Path, args.arg>>)))
     IN /\ repo' = r.repo
        /\ IF r.exit # 0 THEN Exit(r.exit, r.out)
           ELSE pc' = "save" /\ UNCHANGED <<exitCode, stdout>>
  /\ UNCHANGED <<disk, lfs, rfs, args, env, config, client, sftpc, saves, disk0,
                 call, pre, ret, transfers>>

\* changeDirectory after its switch: the repository is stored and the
\* configuration saved
CdSave ==
  /\ pc = "save"
  /\ config' = StoreRepository(config, repo)
  /\ LET sv == saveConfig(disk, config', env.wr)
     IN /\ disk' = sv.disk
        /\ IF sv.err # NilErr THEN Exit(1, "Error saving configuration")
           ELSE Returning("Changed directory")
  /\ saves' = saves + 1
  /\ UNCHANGED <<lfs, rfs, args, env, repo, client, sftpc, disk0, call, pre, ret, transfers>>

Closed2(c) == IF c = "open" THEN "closed" ELSE c

\* the handler returns: defer sftp.Close(), defer client.Close(); main
\* returns and the process exits with status 0
Return ==
  /\ pc = "returning"
  /\ sftpc' = Closed2(sftpc)
  /\ client' = Closed2(client)
  /\ pc' = "exited"
  /\ exitCode' = 0
  /\ UNCHANGED <<disk, lfs, rfs, args, env, config, repo, saves, stdout, disk0,
                 call, pre, ret, transfers>>

\* the next command line is run by a new process
NextProcess ==
  /\ pc = "exited"
  /\ args' = [n |-> 0, cmd |-> "", arg |-> <<>>]
  /\ env' = [net |-> "ok", wr |-> "ok", wd |-> TRUE]
  /\ config' = ZeroConfig
  /\ repo' = ZeroRepository
  /\ client' = "none"
  /\ sftpc' = "none"
  /\ saves' = 0
  /\ stdout' = ""
  /\ exitCode' = 0 - 1
  /\ disk0' = disk
  /\ pc' = "start"
  /\ UNCHANGED <<disk, lfs, rfs, call, pre, ret, transfers>>

Next ==
  \/ Start
  \/ NoCommand
  \/ UnknownCommand
  \/ MissingArgument
  \/ ListRepositories
  \/ SetRepository
  \/ ShowLocal
  \/ GetLocal
  \/ PutLocal
  \/ CdLocal
  \/ NotImplemented
  \/ SshConnect
  \/ SshNewSftp
  \/ ShowSsh
  \/ GetSsh
  \/ PutSsh
  \/ CdSsh
  \/ CdSave
  \/ Return
  \/ NextProcess

Spec == Init /\ [][Next]_vars

\* ------------------------------------------------------------------------
\* The claims about the program
\* ------------------------------------------------------------------------

\* the Config the running process loaded from the file
Loaded == loadConfig(disk0).config

\* the repository the running command works on
Current0 == RepositoryOf(Loaded, Loaded.Current)

RanSet == pc = "exited" /\ args.cmd = "set" /\ args.n >= 2 /\ disk0.state # "missing"

\* C1 as stated: for every name N that is a key of config.repositories,
\* `set N` makes config.current equal to N and writes the config to the
\* file; for every other name, `set` leaves config.current unchanged, in
\* memory and in the file, and the process exits with a non-zero status.
C1_Original ==
  RanSet =>
    IF HasRepository(Loaded, args.arg)
      THEN /\ config.Current = args.arg
           /\ loadConfig(disk).config.Current = args.arg
    ELSE /\ config.Current = Loaded.Current
         /\ disk = disk0
         /\ exitCode # 0

\* C1 (amended): for every name N that is a key of config.repositories,
\* `set N` makes config.current equal to N in memory and calls saveConfig
\* once; when the write succeeds the file holds that Config and the status
\* is 0; when the write fails the status is 1 and the file is as it was or
\* truncated.  For every other name, `set` leaves config.current unchanged,
\* in memory and in the file, and the process exits with a non-zero status.
C1_SetRepository ==
  RanSet =>
    IF HasRepository(Loaded, args.arg)
      THEN /\ config.Current = args.arg
           /\ saves = 1
           /\ env.wr = "ok" =>
                /\ disk.state = "ok"
                /\ loadConfig(disk).config = config
                /\ exitCode = 0
           /\ env.wr # "ok" => exitCode = 1 /\ disk \in {disk0, Truncated}
    ELSE /\ config.Current = Loaded.Current
         /\ disk = disk0
         /\ saves = 0
         /\ exitCode # 0

\* `set s` moved the current repository from another one to s, on disk
C1_Witness ==
  /\ RanSet
  /\ args.arg = NameS
  /\ Loaded.Current = NameH
  /\ loadConfig(disk).config.Current = NameS
  /\ exitCode = 0

\* the path `cd <dir>` checks, and whether it names a directory
CdTarget ==
  IF Branch(Current0.Type) = "ssh"
    THEN ToSlash(Join(<<IF Current0.Path = <<>> THEN Dot ELSE Current0.Path, args.arg>>))
  ELSE Join(<<Current0.Path, args.arg>>)

CdTargetIsDir ==
  IF Branch(Current0.Type) = "ssh" THEN IsDirAt(rfs, RemoteHome, CdTarget)
  ELSE IsDirAt(lfs, Cwd, CdTarget)

RanCd == pc = "exited" /\ args.cmd = "cd" /\ args.n >= 2 /\ disk0.state # "missing"

\* C2: for a current repository of type local, network or ssh, `cd` to a
\* path that does not exist or that is no directory leaves the file as it
\* was, without a call of saveConfig, and the process exits with a non-zero
\* status.
C2_CdBadPath ==
  (RanCd /\ Current0.Type \in {"local", "network", "ssh"} /\ ~CdTargetIsDir) =>
    /\ disk = disk0
    /\ saves = 0
    /\ exitCode # 0

\* `cd a`, a file, was refused on the server after the session was opened
C2_Witness ==
  /\ RanCd
  /\ Current0.Type = "ssh"
  /\ args.arg = NameA
  /\ Exists(rfs, RemoteHome, CdTarget)
  /\ sftpc # "none"
  /\ exitCode = 1

\* the messages of the operational errors
ErrorMessages ==
  {"Error loading configuration", "Please specify", "Repository not found",
   "Error saving configuration", "Error reading repository",
   "Error getting current directory", "Error getting file or folder",
   "Error getting absolute path", "Error putting file or folder",
   "Error accessing path", "Error: not a directory",
   "Error connecting to SSH server", "Error creating SFTP client",
   "Error reading remote directory", "Error during get", "Error uploading file"}

\* show, get, put or cd was run and config.current is no key of repositories
MissingCurrent ==
  /\ disk0.state # "missing"
  /\ args.cmd \in {"show", "get", "put", "cd"}
  /\ args.n >= (IF args.cmd = "show" THEN 1 ELSE 2)
  /\ ~HasRepository(Loaded, Loaded.Current)

\* C3 as stated: the exit status is 0 when the command succeeds or when the
\* run only prints the usage (no command, or a command not known), and 1 on
\* every operational error, a missing current repository for show, get, put
\* and cd among them.
C3_Original ==
  pc = "exited" =>
    exitCode = (IF stdout \in ErrorMessages \/ MissingCurrent THEN 1 ELSE 0)

\* C3 (amended): the exit status is 1 when no command is given and on every
\* operational error (the configuration cannot be loaded, an argument of
\* set, get, put or cd is missing, the name given to set is no repository,
\* an I/O or connection failure); it is 0 when the command succeeds, when
\* the command is not known, and when show, get, put or cd finds no current
\* repository or one whose type is none of local, network, ssh (the
\* configuration is loaded before the command is looked at).
C3_ExitStatus ==
  pc = "exited" =>
    /\ exitCode = (IF stdout \in ErrorMessages \/ args.n = 0 THEN 1 ELSE 0)
    /\ MissingCurrent => (exitCode = 0 /\ stdout = "not implemented yet")
    /\ (disk0.state # "missing" /\ args.n >= 1 /\ args.cmd \notin Commands) =>
         (exitCode = 0 /\ stdout = "Usage")

\* a run without a command printed the usage and ended with status 1
C3_Witness == pc = "exited" /\ args.n = 0 /\ stdout = "Usage" /\ exitCode = 1

\* C4: when the process has exited, on whatever path, the SSH connection
\* and the SFTP session it opened have been closed.
C4_ClosedAtExit == pc = "exited" => (client # "open" /\ sftpc # "open")

\* the step in which changeDirectory saves the configuration of an ssh
\* repository
CdSshSaves == args.cmd = "cd" /\ Branch(repo.Type) = "ssh" /\ saves' = saves + 1

\* C8 as stated: for `cd` on an ssh repository the SSH connection and the
\* SFTP session are closed before the config file is written.
C8_Original == [][CdSshSaves => (client = "closed" /\ sftpc = "closed")]_vars

\* C8 (amended): a process calls saveConfig at most once; `cd` on an ssh
\* repository saves the configuration while the SSH connection and the SFTP
\* session are still open, and they are closed after it, when the handler
\* returns: a process that exits with status 0 has none of them open.
C8_SaveThenRelease ==
  /\ [](saves <= 1)
  /\ [][CdSshSaves => (client = "open" /\ sftpc = "open")]_vars
  /\ []((pc = "exited" /\ exitCode = 0) => (client # "open" /\ sftpc # "open"))

\* `cd` on the ssh repository saved once and then closed what it had opened
C8_Witness ==
  /\ RanCd
  /\ Current0.Type = "ssh"
  /\ saves = 1
  /\ exitCode = 0
  /\ client = "closed"
  /\ sftpc = "closed"

\* current is empty or a key of repositories in the file
ValidCurrent(d) ==
  /\ d.state # "missing"
  /\ \/ loadConfig(d).config.Current = <<>>
     \/ HasRepository(loadConfig(d).config, loadConfig(d).config.Current)

RepositoryNames(d) == DOMAIN loadConfig(d).config.Repositories

\* the running command is a `get` whose destination, the working directory
\* joined with its argument, is the configuration file or a directory above it
GetOntoConfig ==
  /\ args.cmd = "get"
  /\ args.n >= 2
  /\ Resolve(Cwd, Join(<<Getwd, args.arg>>)) \in Prefixes(ConfigFile)

OtherKeys(o) == [k \in DOMAIN o \ {"path"} |-> o[k]]

====
